---- MODULE Spec2Model ----
(***************************************************************************)
(* A model of BFsFamilytree.py: build_family_graph, find_shortest_path_tree *)
(* and mark_direct_lineage.  A family record ("card") is a record with the  *)
(* fields Name, Father, Mother and Children; a name is a string; marking a  *)
(* name prepends "*" to it, as the f-strings of the source do.              *)
(***************************************************************************)
EXTENDS Integers, Sequences, FiniteSets, TLC

VARIABLES
    family_data,         \* the list of cards handed to mark_direct_lineage
    start_person_name,   \* the root handed to mark_direct_lineage
    original,            \* history: family_data as it was when the call began
    pc,                  \* where the call is
    graph,               \* build_family_graph's dict: name -> set of names
    i,                   \* index of the next card of a for-loop over family_data
    queue,               \* the deque of find_shortest_path_tree
    predecessors,        \* the dict of find_shortest_path_tree
    current_person,      \* the person last taken from the queue
    pending,             \* neighbours of current_person the for-loop has yet to visit
    dequeued,            \* history: the persons taken from the queue so far
    marked_family_data,  \* the output list mark_direct_lineage builds
    result,              \* what mark_direct_lineage returned
    warned,              \* whether the warning was printed
    run,                 \* 1: first call, 2: the call on the first call's output
    first_result         \* history: what the first call returned

vars == <<family_data, start_person_name, original, pc, graph, i, queue,
          predecessors, current_person, pending, dequeued, marked_family_data,
          result, warned, run, first_result>>

\* ------------------------------------------------------------------ bounds
\* A data set has at most MaxSize cards and relationship references together.
MaxSize == 4
\* The graphs handed to find_shortest_path_tree directly have MaxNodes nodes
\* and at most MaxEdges edges (self-loops included).
MaxNodes == 4
MaxEdges == 4

\* ------------------------------------------------------------------ values
\* Python's None: the value of card.get(k) for a missing key, of
\* predecessors.get(k) for a missing key, and the root's predecessor.
None == "<None>"

\* The sentinel of an absent parent.
Unknown == "Unknown"

\* The names the bounded data sets are drawn from.
Persons == {"A", "B", Unknown}

\* Python truthiness of a card field: None and the empty string are false.
Truthy(x) == x /= None /\ x /= ""

\* f'*{name}'
Star(name) == "*" \o name

\* An empty dict.
EmptyDict == [k \in {} |-> None]

\* d.get(k)
get(d, k) == IF k \in DOMAIN d THEN d[k] ELSE None

\* d[k] = v
setitem(d, k, v) == [x \in DOMAIN d \cup {k} |-> IF x = k THEN v ELSE d[x]]

\* ------------------------------------------------------- build_family_graph
\* graph.setdefault(k, set()), as the dict it leaves behind
setdefault(g, k) == IF k \in DOMAIN g THEN g ELSE setitem(g, k, {})

\* an insertion that forgets the way back: graph.setdefault(other, set())
AddEdgeOneWay(g, person, other) ==
    setdefault([g EXCEPT ![person] = @ \cup {other}], other)

\* graph[person].add(other); graph.setdefault(other, set()).add(person)
AddEdge(g, person, other) ==
    LET g1 == [g EXCEPT ![person] = @ \cup {other}]
        g2 == setdefault(g1, other)
    IN  [g2 EXCEPT ![other] = @ \cup {person}]

\* the test of line 31
IsKnownParent(parent) == Truthy(parent) /\ parent /= Unknown

\* one round of the loop over ["Father", "Mother"]
AddParent(g, person, parent) ==
    IF IsKnownParent(parent) THEN AddEdge(g, person, parent) ELSE g

\* the loop over card.get("Children", []), from its k-th entry on
RECURSIVE AddChildren(_, _, _, _)
AddChildren(g, person, children, k) ==
    IF k > Len(children) THEN g
    ELSE AddChildren(AddEdge(g, person, children[k]), person, children, k + 1)

\* the body of the loop over family_data, for one card
AddCard(g, card) ==
    LET person == card.Name
        g0 == setdefault(g, person)
        g1 == AddParent(g0, person, card.Father)
        g2 == AddParent(g1, person, card.Mother)
    IN  AddChildren(g2, person, card.Children, 1)

\* ------------------------------------------------------ mark_direct_lineage
\* a test of one direction only: the other is the person's predecessor
OnTreeTowardsRoot(pred, person, other) == get(pred, person) = other

\* a test of one direction only: the person is the other's predecessor
OnTreeAwayFromRoot(pred, person, other) == get(pred, other) = person

\* predecessors.get(person) == other or predecessors.get(other) == person
OnTree(pred, person, other) ==
    get(pred, person) = other \/ get(pred, other) = person

\* the Father / Mother blocks: the value new_card[field] ends with
MarkParent(pred, person, parent) ==
    IF Truthy(parent) /\ OnTree(pred, person, parent) THEN Star(parent) ELSE parent

\* the loop that builds marked_children
MarkChildren(pred, person, children) ==
    [k \in 1..Len(children) |->
        IF OnTree(pred, person, children[k]) THEN Star(children[k]) ELSE children[k]]

\* new_card, as it is appended to marked_family_data
MarkCard(pred, card) ==
    [Name     |-> card.Name,
     Father   |-> MarkParent(pred, card.Name, card.Father),
     Mother   |-> MarkParent(pred, card.Name, card.Mother),
     Children |-> MarkChildren(pred, card.Name, card.Children)]

\* new_card = card in place of card.copy(): the writes reach the input card
CardAfterMarkingInPlace(card, new_card) == new_card

\* What the input card holds once new_card has been written: new_card is
\* card.copy() and its Children is a fresh list, so card keeps its values.
CardAfterMarking(card, new_card) == card

\* "if predecessors is None", which an empty dict never satisfies
NoPredecessorsIsNone(pred) == FALSE

\* "if not predecessors"
NoPredecessors(pred) == DOMAIN pred = {}

\* ------------------------------------------------------------- the inputs
RefCount(card) ==
    (IF card.Father = None THEN 0 ELSE 1) + (IF card.Mother = None THEN 0 ELSE 1)
    + Len(card.Children)

ChildLists(k) == UNION {[1..j -> Persons] : j \in 0..k}

\* the cards with at most budget references
Cards(budget) ==
    {c \in [Name : Persons, Father : Persons \cup {None},
            Mother : Persons \cup {None}, Children : ChildLists(budget)] :
        RefCount(c) <= budget}

\* the lists of n cards with at most budget references together
RECURSIVE DataSets(_, _)
DataSets(n, budget) ==
    IF n = 0 THEN {<<>>}
    ELSE UNION {{<<c>> \o s : s \in DataSets(n - 1, budget - RefCount(c))} :
                   c \in Cards(budget)}

AllData == UNION {DataSets(n, MaxSize - n) : n \in 0..MaxSize}

\* ------------------------------------------------------------------ states
Begin(data, root, r, first) ==
    /\ family_data = data
    /\ start_person_name = root
    /\ original = data
    /\ pc = "build"
    /\ graph = EmptyDict
    /\ i = 1
    /\ queue = <<>>
    /\ predecessors = EmptyDict
    /\ current_person = None
    /\ pending = {}
    /\ dequeued = {}
    /\ marked_family_data = <<>>
    /\ result = None
    /\ warned = FALSE
    /\ run = r
    /\ first_result = first

Init == \E data \in AllData, root \in Persons : Begin(data, root, 1, None)

\* build_family_graph: one round of "for card in family_data"
BuildRecord ==
    /\ pc = "build"
    /\ i <= Len(family_data)
    /\ graph' = AddCard(graph, family_data[i])
    /\ i' = i + 1
    /\ UNCHANGED <<family_data, start_person_name, original, pc, queue,
                   predecessors, current_person, pending, dequeued,
                   marked_family_data, result, warned, run, first_result>>

\* build_family_graph returns; find_shortest_path_tree is called
BuildReturn ==
    /\ pc = "build"
    /\ i > Len(family_data)
    /\ pc' = "search"
    /\ UNCHANGED <<family_data, start_person_name, original, graph, i, queue,
                   predecessors, current_person, pending, dequeued,
                   marked_family_data, result, warned, run, first_result>>

\* a search that forgets to enter the root in the dict
InitialPredecessorsWithoutRoot(root) == EmptyDict

\* the dict find_shortest_path_tree starts from
InitialPredecessors(root) == setitem(EmptyDict, root, None)

\* find_shortest_path_tree up to its loop
SearchStart ==
    /\ pc = "search"
    /\ IF start_person_name \notin DOMAIN graph
       THEN /\ predecessors' = EmptyDict
            /\ queue' = <<>>
            /\ pc' = "returned"
       ELSE /\ queue' = <<start_person_name>>
            /\ predecessors' = InitialPredecessors(start_person_name)
            /\ pc' = "loop"
    /\ UNCHANGED <<family_data, start_person_name, original, graph, i,
                   current_person, pending, dequeued, marked_family_data,
                   result, warned, run, first_result>>

\* queue[0] in place of queue.popleft(): the person stays in the queue
peekleft(q) == <<Head(q), q>>

\* queue.popleft(): the person taken and the queue left
popleft(q) == <<Head(q), Tail(q)>>

\* "while queue": current_person = queue.popleft(), and the for-loop begins
Dequeue ==
    /\ pc = "loop"
    /\ queue /= <<>>
    /\ current_person' = popleft(queue)[1]
    /\ queue' = popleft(queue)[2]
    /\ pending' = graph[current_person']
    /\ dequeued' = dequeued \cup {current_person'}
    /\ pc' = IF pending' = {} THEN "loop" ELSE "scan"
    /\ UNCHANGED <<family_data, start_person_name, original, graph, i,
                   predecessors, marked_family_data, result, warned, run,
                   first_result>>

\* a loop without the test of line 71
NotYetFoundUntested(pred, neighbor) == TRUE

\* "if neighbor not in predecessors"
NotYetFound(pred, neighbor) == neighbor \notin DOMAIN pred

\* one round of "for neighbor in graph[current_person]", in any order
Visit ==
    /\ pc = "scan"
    /\ \E neighbor \in pending :
        /\ pending' = pending \ {neighbor}
        /\ IF NotYetFound(predecessors, neighbor)
           THEN /\ predecessors' = setitem(predecessors, neighbor, current_person)
                /\ queue' = Append(queue, neighbor)
           ELSE UNCHANGED <<predecessors, queue>>
    /\ pc' = IF pending' = {} THEN "loop" ELSE "scan"
    /\ UNCHANGED <<family_data, start_person_name, original, graph, i,
                   current_person, dequeued, marked_family_data, result, warned,
                   run, first_result>>

\* the queue is empty: find_shortest_path_tree returns predecessors
SearchReturn ==
    /\ pc = "loop"
    /\ queue = <<>>
    /\ pc' = "returned"
    /\ UNCHANGED <<family_data, start_person_name, original, graph, i, queue,
                   predecessors, current_person, pending, dequeued,
                   marked_family_data, result, warned, run, first_result>>

\* mark_direct_lineage after the search: the warning and early return, or the
\* start of the marking loop
CheckFound ==
    /\ pc = "returned"
    /\ IF NoPredecessors(predecessors)
       THEN /\ warned' = TRUE
            /\ result' = family_data
            /\ pc' = "done"
            /\ UNCHANGED <<marked_family_data, i>>
       ELSE /\ marked_family_data' = <<>>
            /\ i' = 1
            /\ pc' = "mark"
            /\ UNCHANGED <<warned, result>>
    /\ UNCHANGED <<family_data, start_person_name, original, graph, queue,
                   predecessors, current_person, pending, dequeued, run,
                   first_result>>

\* one round of the marking loop
MarkRecord ==
    /\ pc = "mark"
    /\ i <= Len(family_data)
    /\ LET card == family_data[i]
           new_card == MarkCard(predecessors, card)
       IN  /\ marked_family_data' = Append(marked_family_data, new_card)
           /\ family_data' = [family_data EXCEPT ![i] = CardAfterMarking(card, new_card)]
    /\ i' = i + 1
    /\ UNCHANGED <<start_person_name, original, pc, graph, queue, predecessors,
                   current_person, pending, dequeued, result, warned, run,
                   first_result>>

\* return marked_family_data
MarkReturn ==
    /\ pc = "mark"
    /\ i > Len(family_data)
    /\ result' = marked_family_data
    /\ pc' = "done"
    /\ UNCHANGED <<family_data, start_person_name, original, graph, i, queue,
                   predecessors, current_person, pending, dequeued,
                   marked_family_data, warned, run, first_result>>

\* mark_direct_lineage is called again on what it returned, with the same root
Rerun ==
    /\ pc = "done"
    /\ run = 1
    /\ family_data' = result
    /\ original' = result
    /\ first_result' = result
    /\ run' = 2
    /\ pc' = "build"
    /\ graph' = EmptyDict
    /\ i' = 1
    /\ queue' = <<>>
    /\ predecessors' = EmptyDict
    /\ current_person' = None
    /\ pending' = {}
    /\ dequeued' = {}
    /\ marked_family_data' = <<>>
    /\ result' = None
    /\ warned' = FALSE
    /\ UNCHANGED start_person_name

Next ==
    \/ BuildRecord
    \/ BuildReturn
    \/ SearchStart
    \/ Dequeue
    \/ Visit
    \/ SearchReturn
    \/ CheckFound
    \/ MarkRecord
    \/ MarkReturn
    \/ Rerun

Spec == Init /\ [][Next]_vars

\* ------------------------------------------- find_shortest_path_tree alone
\* find_shortest_path_tree called on any undirected graph of MaxNodes nodes
\* and at most MaxEdges edges, with any root (one of them not in the graph).
NodeNames == <<"N1", "N2", "N3", "N4", "N5", "N6", "N7", "N8">>

Nodes == {NodeNames[k] : k \in 1..MaxNodes}

NodePairs == {p \in (1..MaxNodes) \X (1..MaxNodes) : p[1] <= p[2]}

EdgeSets == {E \in SUBSET NodePairs : Cardinality(E) <= MaxEdges}

GraphOf(E) ==
    [n \in Nodes |->
        {NodeNames[k] : k \in {j \in 1..MaxNodes :
            \E p \in E : \/ NodeNames[p[1]] = n /\ p[2] = j
                         \/ NodeNames[p[2]] = n /\ p[1] = j}}]

InitBFS ==
    \E E \in EdgeSets, root \in Nodes \cup {"Zelda"} :
        /\ family_data = <<>>
        /\ start_person_name = root
        /\ original = <<>>
        /\ pc = "search"
        /\ graph = GraphOf(E)
        /\ i = 1
        /\ queue = <<>>
        /\ predecessors = EmptyDict
        /\ current_person = None
        /\ pending = {}
        /\ dequeued = {}
        /\ marked_family_data = <<>>
        /\ result = None
        /\ warned = FALSE
        /\ run = 1
        /\ first_result = None

NextBFS ==
    \/ SearchStart
    \/ Dequeue
    \/ Visit
    \/ SearchReturn

SpecBFS == InitBFS /\ [][NextBFS]_vars

\* The loop is not interrupted: a step that can be taken is taken.
SpecBFSFair == SpecBFS /\ WF_vars(NextBFS)

\* ------------------------------------------------------------------- main
Card(name, father, mother, children) ==
    [Name |-> name, Father |-> father, Mother |-> mother, Children |-> children]

\* the data of main()
SampleData == <<
    Card("Alice", "Arlo", "Madeline", <<>>),
    Card("Bob", "Charlie", "Eve", <<>>),
    Card("Eve", "Oliver", "Aurora", <<"Bob">>),
    Card("Charlie", "Jack", "Luna", <<"Bob">>),
    Card("Madeline", "Jack", "Aurora", <<"Alice">>),
    Card("Arlo", "Oscar", "Isla", <<"Alice">>),
    Card("Oliver", "Hugo", "Rose", <<"Eve">>),
    Card("Luna", "Oscar", "Isla", <<"Charlie">>),
    Card("Aurora", "Hugo", "Rose", <<"Eve", "Madeline">>),
    Card("Jack", "Oscar", "Rose", <<"Charlie", "Madeline">>),
    Card("Hugo", Unknown, Unknown, <<"Oliver", "Aurora">>),
    Card("Rose", Unknown, Unknown, <<"Oliver", "Aurora", "Jack">>),
    Card("Isla", Unknown, Unknown, <<"Luna", "Arlo">>),
    Card("Oscar", Unknown, Unknown, <<"Luna", "Jack", "Arlo">>) >>

\* main() calls mark_direct_lineage(data, "Bob") once
InitSample == Begin(SampleData, "Bob", 1, None)

NextSample ==
    \/ BuildRecord
    \/ BuildReturn
    \/ SearchStart
    \/ Dequeue
    \/ Visit
    \/ SearchReturn
    \/ CheckFound
    \/ MarkRecord
    \/ MarkReturn

SpecSample == InitSample /\ [][NextSample]_vars

\* ------------------------------------------------------ graph vocabulary
\* the nodes within k hops of r
RECURSIVE Within(_, _, _)
Within(g, r, k) ==
    IF k = 0 THEN {r}
    ELSE LET W == Within(g, r, k - 1) IN W \cup UNION {g[n] : n \in W}

Reachable(g, r) == Within(g, r, Cardinality(DOMAIN g))

\* the hop distance from r to a node n reachable from it
Distance(g, r, n) ==
    CHOOSE k \in 0..Cardinality(DOMAIN g) :
        /\ n \in Within(g, r, k)
        /\ k = 0 \/ n \notin Within(g, r, k - 1)

\* the number of predecessor links from n to the key whose predecessor is
\* None; -1 when the links do not lead there within fuel steps
RECURSIVE ChainLength(_, _, _)
ChainLength(pred, n, fuel) ==
    IF n \notin DOMAIN pred THEN -1
    ELSE IF pred[n] = None THEN 0
    ELSE IF fuel = 0 THEN -1
    ELSE LET rest == ChainLength(pred, pred[n], fuel - 1)
         IN  IF rest < 0 THEN -1 ELSE rest + 1

RootFound == start_person_name \in DOMAIN graph

\* an edge of the graph between two different nodes that is no link of the tree
HasNonTreeEdge ==
    \E a \in DOMAIN graph : \E b \in graph[a] :
        /\ a /= b
        /\ get(predecessors, a) /= b
        /\ get(predecessors, b) /= a
        /\ a \in DOMAIN predecessors

\* --------------------------------------------------------------------- C1
\* C1: when find_shortest_path_tree returns for a root in the graph, every
\* key n of the map is linked by its predecessors to the root, the only key
\* whose predecessor is None, each link is an edge of the graph, and the
\* number of links equals the hop distance from the root to n.
C1_ShortestPaths ==
    (pc = "returned" /\ RootFound) =>
        \A n \in DOMAIN predecessors :
            /\ predecessors[n] = None <=> n = start_person_name
            /\ predecessors[n] /= None =>
                    /\ predecessors[n] \in DOMAIN predecessors
                    /\ n \in graph[predecessors[n]]
            /\ n \in Reachable(graph, start_person_name)
            /\ ChainLength(predecessors, n, Cardinality(DOMAIN graph))
                   = Distance(graph, start_person_name, n)

\* a search that returned a node two links from the root in a graph that
\* also holds an edge outside the tree
C1_Witness ==
    /\ pc = "returned"
    /\ RootFound
    /\ HasNonTreeEdge
    /\ \E n \in DOMAIN predecessors :
           ChainLength(predecessors, n, Cardinality(DOMAIN graph)) = 2

\* --------------------------------------------------------------------- C2
NeverOverwritten ==
    \A n \in DOMAIN predecessors :
        n \in DOMAIN predecessors' /\ predecessors'[n] = predecessors[n]

\* C2: with the root in the graph, an entry of the map is written once and
\* never changed, the keys are always nodes reachable from the root, and on
\* return the keys are exactly the nodes reachable from the root.
C2_KeysAreReachable ==
    /\ [](RootFound =>
            DOMAIN predecessors \subseteq Reachable(graph, start_person_name))
    /\ []((pc = "returned" /\ RootFound) =>
            DOMAIN predecessors = Reachable(graph, start_person_name))
    /\ [][NeverOverwritten]_vars

\* a search that returned with some node of the graph unreachable and at
\* least three reachable
C2_Witness ==
    /\ pc = "returned"
    /\ RootFound
    /\ DOMAIN graph \ DOMAIN predecessors /= {}
    /\ Cardinality(DOMAIN predecessors) >= 3

\* -------------------------------------------------------------------- C10
InQueue == {queue[k] : k \in 1..Len(queue)}

QueueDiscipline ==
    /\ \A j, k \in 1..Len(queue) : queue[j] = queue[k] => j = k
    /\ InQueue \subseteq DOMAIN predecessors
    /\ InQueue \cap dequeued = {}
    /\ pc = "returned" => queue = <<>>

\* C10: the loop ends with an empty queue, and at every step the queue holds
\* no duplicates, every queued node has a predecessor entry and no node that
\* was dequeued is in the queue again.
C10_EnqueuedOnce ==
    /\ <>(pc = "returned")
    /\ []QueueDiscipline

\* a search that returned after dequeuing at least three nodes of a graph
\* with an edge outside the tree
C10_Witness ==
    /\ pc = "returned"
    /\ Cardinality(dequeued) >= 3
    /\ HasNonTreeEdge

\* --------------------------------------------------------------------- C3
Names == {original[k].Name : k \in 1..Len(original)}

\* C3: after every processed card and on return, b is a neighbour of a if
\* and only if a is a neighbour of b (and both are nodes of the graph).
C3_Symmetric ==
    \A a \in DOMAIN graph : \A b \in graph[a] :
        b \in DOMAIN graph /\ a \in graph[b]

\* a built graph with a person listed in its own relations and a node that
\* no card is about
C3_Witness ==
    /\ pc = "search"
    /\ \E a \in DOMAIN graph : a \in graph[a]
    /\ \E a \in DOMAIN graph \ Names : graph[a] /= {}

\* --------------------------------------------------------------------- C4
Range(seq) == {seq[k] : k \in 1..Len(seq)}

\* the cards build_family_graph has processed
Processed == IF pc = "build" THEN i - 1 ELSE Len(family_data)

\* card puts an edge between a and the sentinel name through a field other
\* than a parent field holding the sentinel
ExplainsEdgeToUnknown(card, a) ==
    \/ card.Name = a /\ Unknown \in Range(card.Children)
    \/ /\ card.Name = Unknown
       /\ \/ a \in Range(card.Children)
          \/ a /= Unknown /\ a \in {card.Father, card.Mother}

\* C4: a Father or Mother field equal to "Unknown" adds no edge (every edge
\* to the name "Unknown" comes from another field) and is never marked.
C4_UnknownNeverMarked ==
    /\ \A a \in DOMAIN graph :
           Unknown \in graph[a] =>
               \E k \in 1..Processed : ExplainsEdgeToUnknown(original[k], a)
    /\ pc = "done" =>
           \A k \in 1..Len(original) :
               /\ original[k].Father = Unknown => result[k].Father = Unknown
               /\ original[k].Mother = Unknown => result[k].Mother = Unknown

\* --------------------------------------------------------------------- C5
\* predecessor-of-P == X or predecessor-of-X == P
DirectLink(P, X) ==
    \/ P \in DOMAIN predecessors /\ predecessors[P] = X
    \/ X \in DOMAIN predecessors /\ predecessors[X] = P

Expected(P, X) == IF DirectLink(P, X) THEN "*" \o X ELSE X

\* C5: when the root is found, every relationship field of the output that
\* holds a name X in the input is "*" + X if and only if X is the
\* predecessor of the card's person or the person is the predecessor of X,
\* and is X otherwise; the Children list keeps its length and order.
C5_MarkedIffDirect ==
    (pc = "done" /\ ~warned) =>
        /\ Len(result) = Len(original)
        /\ \A k \in 1..Len(original) :
            LET in == original[k]
                out == result[k]
            IN  /\ out.Name = in.Name
                /\ out.Father = IF in.Father = None THEN None
                                ELSE Expected(in.Name, in.Father)
                /\ out.Mother = IF in.Mother = None THEN None
                                ELSE Expected(in.Name, in.Mother)
                /\ Len(out.Children) = Len(in.Children)
                /\ \A j \in 1..Len(in.Children) :
                       out.Children[j] = Expected(in.Name, in.Children[j])

\* a first call that returned a card with a marked parent and a card with
\* two children, one marked and one not
C5_Witness ==
    /\ pc = "done"
    /\ run = 1
    /\ ~warned
    /\ \E k \in 1..Len(original) :
           original[k].Father /= None /\ result[k].Father /= original[k].Father
    /\ \E k \in 1..Len(original) :
           /\ Len(original[k].Children) = 2
           /\ \E j, l \in 1..2 :
                  /\ result[k].Children[j] /= original[k].Children[j]
                  /\ result[k].Children[l] = original[k].Children[l]

\* --------------------------------------------------------------------- C6
\* C6: when the root is no node of the graph, find_shortest_path_tree
\* returns the empty map, and mark_direct_lineage warns and returns the
\* input records as they are.
C6_RootNotFound ==
    (~RootFound /\ pc \in {"returned", "done"}) =>
        /\ predecessors = EmptyDict
        /\ pc = "done" => (warned /\ result = original)

\* a call that returned for a root that is in no card, the cards holding
\* relationships
C6_Witness ==
    /\ pc = "done"
    /\ run = 1
    /\ ~RootFound
    /\ \E k \in 1..Len(original) : RefCount(original[k]) >= 2

\* --------------------------------------------------------------------- C7
\* C7: in every state of a call the input records are what they were when
\* the call began.
C7_InputUnchanged == family_data = original

\* a first call that returned records with marks in them
C7_Witness ==
    /\ pc = "done"
    /\ run = 1
    /\ ~warned
    /\ result /= original

\* --------------------------------------------------------------------- C8
\* C8: the call on the first call's output, with the same root, returns the
\* first call's output.
C8_Idempotent == (run = 2 /\ pc = "done") => result = first_result

\* --------------------------------------------------------------------- C9
\* C9: on the data of main() with root "Bob", whatever the order of the
\* neighbours, Bob's card comes out with Father "*Charlie" and Mother "*Eve"
\* and Alice's card with exactly one of Father and Mother marked, the one
\* that is Alice's predecessor.
C9_Sample ==
    pc = "done" =>
        LET alice == result[1]
            bob == result[2]
        IN  /\ alice.Name = "Alice" /\ bob.Name = "Bob"
            /\ bob.Father = "*Charlie"
            /\ bob.Mother = "*Eve"
            /\ \/ alice.Father = "*Arlo" /\ alice.Mother = "Madeline"
                    /\ predecessors["Alice"] = "Arlo"
               \/ alice.Father = "Arlo" /\ alice.Mother = "*Madeline"
                    /\ predecessors["Alice"] = "Madeline"

\* the call of main() returned, Alice reached from one of her parents
C9_Witness ==
    /\ pc = "done"
    /\ ~warned
    /\ Len(result) = 14
    /\ predecessors["Alice"] \in {"Arlo", "Madeline"}

====
